---------------------------- MODULE Spec2Model ----------------------------
(***************************************************************************)
(* A model of game_agent.py: CustomPlayer.get_move (iterative deepening    *)
(* under a clock), and the recursive max_value / min_value search behind   *)
(* minimax and alphabeta.                                                  *)
(*                                                                         *)
(* The game (isolation.Board) is an external collaborator.  It is modelled *)
(* as a finite tree: node 0 is the state handed to the search, every node  *)
(* has an ordered list of children (its legal moves in enumeration order)  *)
(* and a score (what score_fn returns for that state, seen by the agent).  *)
(* Scores are integers; float("-inf") and float("inf") are the two values  *)
(* below and above every finite score: the code only compares scores.      *)
(***************************************************************************)
EXTENDS Integers, Sequences, FiniteSets, TLC

\* ------------------------------------------------------------------ bounds
\* Non-root nodes of a game tree handed directly to minimax / alphabeta.
MaxNodes == 4
\* Non-root nodes of a game tree handed to get_move.
MaxCallNodes == 3
\* Finite scores are 0..MaxScore.
MaxScore == 1
\* Deepest iteration the clock lets start; beyond it the clock has expired.
MaxDepth == 3
\* game.move_count ranges over 0..MaxMoveCount.
MaxMoveCount == 2
\* Board dimensions (game.height, game.width).
Height == 2
Width == 3
\* Non-root nodes of a game tree whose search is run step by step.
MaxStepNodes == 3
\* The same, for the runs checked for termination.
MaxFairNodes == 2

\* ------------------------------------------------------------- scores, moves
NegInf == -1
PosInf == MaxScore + 1
FiniteScores == 0..MaxScore
Scores == {NegInf} \cup FiniteScores \cup {PosInf}

\* The sentinel move (-1, -1).
NoMove == <<-1, -1>>

Max(a, b) == IF b > a THEN b ELSE a
Min(a, b) == IF b < a THEN b ELSE a

\* Python's ordering of (int, int) tuples.
MoveLess(m1, m2) == m1[1] < m2[1] \/ (m1[1] = m2[1] /\ m1[2] < m2[2])

\* Python's ordering of (score, move) tuples.
PairLess(p, q) == p[1] < q[1] \/ (p[1] = q[1] /\ MoveLess(p[2], q[2]))

\* max(p, q) and min(p, q) on (score, move) tuples: the first argument is kept
\* unless the second is strictly greater (smaller).
PyMax(p, q) == IF PairLess(p, q) THEN q ELSE p
PyMin(p, q) == IF PairLess(q, p) THEN q ELSE p

\* ------------------------------------------------------------------ the game
NCells == Height * Width
\* The k-th cell of the board in row-major order, k in 1..NCells.
Cell(k) == <<(k - 1) \div Width, (k - 1) % Width>>

\* The move that the i-th legal move of a state stands for.  Legal moves are
\* enumerated in ascending or in descending coordinate order.
MoveAt(g, i) == IF g.rev THEN Cell(NCells + 1 - i) ELSE Cell(i)

\* game.get_legal_moves() at node n, in enumeration order.
LegalMoves(g, n) == [i \in 1..Len(g.kids[n]) |-> MoveAt(g, i)]

\* game.forecast_move(move) for the i-th legal move of node n.
Forecast(g, n, i) == g.kids[n][i]

\* score_fn(game, player) at node n.
ScoreFn(g, n) == g.sc[n]

\* Tree shapes: par[i] is the parent of node i, nodes numbered in preorder, so
\* the parent of node i is node i-1 or one of its ancestors.
RECURSIVE AncSelf(_, _)
AncSelf(par, n) == IF n = 0 THEN {0} ELSE {n} \cup AncSelf(par, par[n])

RECURSIVE Shapes(_)
Shapes(k) ==
    IF k = 0 THEN {<<>>}
    ELSE {Append(p, a) : <<p, a>> \in
             {<<p, a>> \in Shapes(k - 1) \X (0..(k - 1)) : a \in AncSelf(p, Len(p))}}

RECURSIVE KidsFrom(_, _, _)
KidsFrom(par, i, acc) ==
    IF i > Len(par) THEN acc
    ELSE KidsFrom(par, i + 1, [acc EXCEPT ![par[i]] = Append(@, i)])

KidsOf(par) == KidsFrom(par, 1, [n \in 0..Len(par) |-> <<>>])

\* The height of the tree below node n.
RECURSIVE HeightFrom(_, _, _)
RECURSIVE TreeHeight(_, _)
HeightFrom(kids, n, i) ==
    IF i > Len(kids[n]) THEN 0
    ELSE Max(1 + TreeHeight(kids, kids[n][i]), HeightFrom(kids, n, i + 1))
TreeHeight(kids, n) == HeightFrom(kids, n, 1)

\* A game: the tree of shape par with scores s below the root and score s0 at
\* the root, its moves enumerated in descending order when r.
GameOf(par, s, s0, r, mc) ==
    [kids |-> KidsOf(par), sc |-> [n \in 0..Len(par) |-> IF n = 0 THEN s0 ELSE s[n]],
     rev |-> r, move_count |-> mc, height |-> Height, width |-> Width]

\* g ranges over the games of at most maxn non-root nodes with move_count in
\* counts.  The root's score is read only when the root has no legal move, and
\* the enumeration order only shows when it has two or more.
IsGame(g, maxn, counts) ==
    \E k \in 0..maxn : \E par \in Shapes(k) : \E s \in [1..k -> Scores] :
    \E s0 \in (IF k = 0 THEN Scores ELSE {0}) :
    \E r \in (IF \E i \in 2..k : par[i] = 0 THEN BOOLEAN ELSE {FALSE}) :
    \E mc \in counts :
        g = GameOf(par, s, s0, r, mc)

\* ---------------------------------------------------------------- the search
\* A search result: the (score, move) pair returned, the number of score_fn
\* calls made, and the number of time_left() queries made on the way.
Result(s, m, e, q) == [score |-> s, move |-> m, evals |-> e, queries |-> q]

\* A cutoff in max_value that tests the wrong bound.
MaxCutoffWrongBound(v, alpha, beta) == v >= alpha
\* line 216: beta cutoff in max_value.
MaxCutoff(v, alpha, beta) == v >= beta
\* A cutoff in min_value that misses the tie with alpha.
MinCutoffStrict(v, alpha, beta) == v < alpha
\* line 248: alpha cutoff in min_value.
MinCutoff(v, alpha, beta) == v <= alpha

RECURSIVE max_value(_, _, _, _, _, _)
RECURSIVE min_value(_, _, _, _, _, _)
RECURSIVE max_loop(_, _, _, _, _, _, _, _, _, _)
RECURSIVE min_loop(_, _, _, _, _, _, _, _, _, _)

\* The for loops of max_value: i is the index of the next move, acc the result
\* so far (acc.score is v, acc.move is best_move).
max_loop(g, n, depth, toPrune, alpha, beta, i, acc, e, q) ==
    IF i > Len(g.kids[n]) THEN Result(acc[1], acc[2], e, q)
    ELSE LET r == IF toPrune
                  THEN min_value(g, Forecast(g, n, i), depth - 1, TRUE, alpha, beta)
                  ELSE min_value(g, Forecast(g, n, i), depth - 1, FALSE, NegInf, PosInf)
             nxt == PyMax(acc, <<r.score, LegalMoves(g, n)[i]>>)
         IN IF toPrune /\ MaxCutoff(nxt[1], alpha, beta)
            THEN Result(nxt[1], nxt[2], e + r.evals, q + 1 + r.queries)
            ELSE max_loop(g, n, depth, toPrune,
                          IF toPrune THEN Max(alpha, nxt[1]) ELSE alpha, beta,
                          i + 1, nxt, e + r.evals, q + 1 + r.queries)

max_value(g, n, depth, toPrune, alpha, beta) ==
    IF depth = 0 \/ Len(g.kids[n]) = 0
    THEN Result(ScoreFn(g, n), NoMove, 1, 1)
    ELSE max_loop(g, n, depth, toPrune, alpha, beta, 1, <<NegInf, NoMove>>, 0, 1)

min_loop(g, n, depth, toPrune, alpha, beta, i, acc, e, q) ==
    IF i > Len(g.kids[n]) THEN Result(acc[1], acc[2], e, q)
    ELSE LET r == IF toPrune
                  THEN max_value(g, Forecast(g, n, i), depth - 1, TRUE, alpha, beta)
                  ELSE max_value(g, Forecast(g, n, i), depth - 1, FALSE, NegInf, PosInf)
             nxt == PyMin(acc, <<r.score, LegalMoves(g, n)[i]>>)
         IN IF toPrune /\ MinCutoff(nxt[1], alpha, beta)
            THEN Result(nxt[1], nxt[2], e + r.evals, q + 1 + r.queries)
            ELSE min_loop(g, n, depth, toPrune,
                          alpha, IF toPrune THEN Min(beta, nxt[1]) ELSE beta,
                          i + 1, nxt, e + r.evals, q + 1 + r.queries)

min_value(g, n, depth, toPrune, alpha, beta) ==
    IF depth = 0 \/ Len(g.kids[n]) = 0
    THEN Result(ScoreFn(g, n), NoMove, 1, 1)
    ELSE min_loop(g, n, depth, toPrune, alpha, beta, 1, <<PosInf, NoMove>>, 0, 1)

\* minimax(game, depth, maximizing_player): one more clock query at entry.
minimax(g, depth, maximizing_player) ==
    LET r == IF maximizing_player
             THEN max_value(g, 0, depth, FALSE, NegInf, PosInf)
             ELSE min_value(g, 0, depth, FALSE, NegInf, PosInf)
    IN Result(r.score, r.move, r.evals, r.queries + 1)

\* alphabeta(game, depth, alpha, beta, maximizing_player).
alphabeta(g, depth, alpha, beta, maximizing_player) ==
    LET r == IF maximizing_player
             THEN max_value(g, 0, depth, TRUE, alpha, beta)
             ELSE min_value(g, 0, depth, TRUE, alpha, beta)
    IN Result(r.score, r.move, r.evals, r.queries + 1)

\* ------------------------------------------------------------------- state
VARIABLES
    game,          \* the state handed to get_move / to the search
    method,        \* self.method
    iterative,     \* self.iterative
    search_depth,  \* self.search_depth
    pc,            \* where the call is
    depth,         \* the depth of the current iteration
    best_move,     \* the accumulator of get_move
    best_score,
    score,         \* the result of the last completed search_method call
    move,
    searched,      \* the depths at which search_method was called, in order
    outcome,       \* "running", "returned" or "raised"
    ret,           \* the move returned
    via,           \* the exit taken
    maximizing,    \* maximizing_player of a direct minimax / alphabeta call
    plain,         \* <<result>> of the direct minimax call, <<>> before it
    pruned,        \* <<result>> of the direct alphabeta call, <<>> before it
    first,         \* <<move>> returned by an earlier get_move call on this state
    stack,         \* the max_value / min_value frames of a search run step by step
    trace          \* the clock queries, evaluations, expansions, returns of that search

vars == <<game, method, iterative, search_depth, pc, depth, best_move, best_score,
          score, move, searched, outcome, ret, via, maximizing, plain, pruned, first,
          stack, trace>>

callVars == <<depth, best_move, best_score, score, move, searched, outcome, ret, via>>
config == <<game, method, iterative, search_depth, maximizing>>
direct == <<plain, pruned, first>>
frames == <<stack, trace>>

Methods == {"minimax", "alphabeta"}
\* __init__'s default search_depth.
DefaultSearchDepth == 3

\* The legal_moves argument of get_move: the state's legal moves.
legal_moves == LegalMoves(game, 0)

\* search_method(game, depth) as get_move calls it (lines 163-166, 172).
search_method(g, m, d) ==
    IF m = "minimax" THEN minimax(g, d, TRUE)
    ELSE alphabeta(g, d, NegInf, PosInf, TRUE)

\* ---------------------------------------------------------------- get_move
Init ==
    /\ IsGame(game, MaxCallNodes, 0..MaxMoveCount)
    /\ method \in Methods
    /\ iterative \in BOOLEAN
    /\ search_depth \in {1, DefaultSearchDepth}
    /\ pc = "call"
    /\ depth = 0
    /\ best_move = NoMove
    /\ best_score = NegInf
    /\ score = NegInf
    /\ move = NoMove
    /\ searched = <<>>
    /\ outcome = "running"
    /\ ret = NoMove
    /\ via = "none"
    /\ maximizing = TRUE
    /\ plain = <<>>
    /\ pruned = <<>>
    /\ first = <<>>
    /\ stack = <<>>
    /\ trace = <<>>

\* lines 141-142, the clock reads below TIMER_THRESHOLD: raise Timeout, outside
\* the try block.
EntryTimeout ==
    /\ pc = "call"
    /\ pc' = "done"
    /\ outcome' = "raised"
    /\ via' = "entry"
    /\ UNCHANGED <<depth, best_move, best_score, score, move, searched, ret>>
    /\ UNCHANGED <<config, direct, frames>>

\* lines 141-142, the clock reads at or above the threshold.
EntryOk ==
    /\ pc = "call"
    /\ pc' = "checks"
    /\ UNCHANGED <<callVars, config, direct, frames>>

\* lines 144-145.
NoLegalMoves ==
    /\ pc = "checks"
    /\ Len(legal_moves) = 0
    /\ pc' = "done"
    /\ outcome' = "returned"
    /\ ret' = NoMove
    /\ via' = "sentinel"
    /\ UNCHANGED <<depth, best_move, best_score, score, move, searched>>
    /\ UNCHANGED <<config, direct, frames>>

\* lines 147-148.
OpeningBook ==
    /\ pc = "checks"
    /\ Len(legal_moves) > 0
    /\ game.move_count = 1
    /\ pc' = "done"
    /\ outcome' = "returned"
    /\ ret' = <<game.height \div 2, game.width \div 2>>
    /\ via' = "opening"
    /\ UNCHANGED <<depth, best_move, best_score, score, move, searched>>
    /\ UNCHANGED <<config, direct, frames>>

\* lines 150-151 and 168: the accumulator is seeded with a random legal move.
Seed ==
    /\ pc = "checks"
    /\ Len(legal_moves) > 0
    /\ game.move_count # 1
    /\ \E i \in 1..Len(legal_moves) : best_move' = legal_moves[i]
    /\ best_score' = NegInf
    /\ depth' = 1
    /\ pc' = "loop"
    /\ UNCHANGED <<score, move, searched, outcome, ret, via>>
    /\ UNCHANGED <<config, direct, frames>>

\* lines 170-171, the clock reads below the threshold.
LoopTimeout ==
    /\ pc = "loop"
    /\ pc' = "except"
    /\ UNCHANGED <<callVars, config, direct, frames>>

\* lines 170-172, the clock reads at or above the threshold: the search starts.
LoopOk ==
    /\ pc = "loop"
    /\ depth <= MaxDepth
    /\ pc' = "search"
    /\ searched' = Append(searched, depth)
    /\ UNCHANGED <<depth, best_move, best_score, score, move, outcome, ret, via>>
    /\ UNCHANGED <<config, direct, frames>>

\* line 172, the clock stays at or above the threshold through every query of
\* the search: it returns its (score, move).
SearchReturns ==
    /\ pc = "search"
    /\ LET r == search_method(game, method, depth)
       IN /\ score' = r.score
          /\ move' = r.move
    /\ pc' = "update"
    /\ UNCHANGED <<depth, best_move, best_score, searched, outcome, ret, via>>
    /\ UNCHANGED <<config, direct, frames>>

\* A variant of SearchTimeout that salvages the aborted iteration: the move of
\* the first root child, which the interrupted traversal had reached, is
\* written to the accumulator.
SearchTimeoutSalvage ==
    /\ pc = "search"
    /\ pc' = "except"
    /\ best_move' = legal_moves[1]
    /\ UNCHANGED <<depth, best_score, score, move, searched, outcome, ret, via>>
    /\ UNCHANGED <<config, direct, frames>>

\* line 172, the clock reads below the threshold at one of the queries of the
\* search: Timeout propagates out of search_method.
SearchTimeout ==
    /\ pc = "search"
    /\ pc' = "except"
    /\ UNCHANGED <<callVars, config, direct, frames>>

\* A variant of Accumulate that also replaces the accumulator on a tie
\* (score >= best_score).
AccumulateOnTie ==
    /\ pc = "update"
    /\ IF score >= best_score
       THEN best_score' = score /\ best_move' = move
       ELSE UNCHANGED <<best_score, best_move>>
    /\ IF ~iterative
       THEN /\ pc' = "done"
            /\ outcome' = "returned"
            /\ ret' = best_move'
            /\ via' = "fixed"
            /\ UNCHANGED depth
       ELSE /\ depth' = depth + 1
            /\ pc' = "loop"
            /\ UNCHANGED <<outcome, ret, via>>
    /\ UNCHANGED <<score, move, searched>>
    /\ UNCHANGED <<config, direct, frames>>

\* A variant of Accumulate that deepens by two plies at a time.
AccumulateSkipsDepth ==
    /\ pc = "update"
    /\ IF score > best_score
       THEN best_score' = score /\ best_move' = move
       ELSE UNCHANGED <<best_score, best_move>>
    /\ IF ~iterative
       THEN /\ pc' = "done"
            /\ outcome' = "returned"
            /\ ret' = best_move'
            /\ via' = "fixed"
            /\ UNCHANGED depth
       ELSE /\ depth' = depth + 2
            /\ pc' = "loop"
            /\ UNCHANGED <<outcome, ret, via>>
    /\ UNCHANGED <<score, move, searched>>
    /\ UNCHANGED <<config, direct, frames>>

\* lines 173-178.
Accumulate ==
    /\ pc = "update"
    /\ IF score > best_score
       THEN best_score' = score /\ best_move' = move
       ELSE UNCHANGED <<best_score, best_move>>
    /\ IF ~iterative
       THEN /\ pc' = "done"
            /\ outcome' = "returned"
            /\ ret' = best_move'
            /\ via' = "fixed"
            /\ UNCHANGED depth
       ELSE /\ depth' = depth + 1
            /\ pc' = "loop"
            /\ UNCHANGED <<outcome, ret, via>>
    /\ UNCHANGED <<score, move, searched>>
    /\ UNCHANGED <<config, direct, frames>>

\* A variant of HandleTimeout that goes back to the depth loop instead of
\* returning.
HandleTimeoutRetry ==
    /\ pc = "except"
    /\ pc' = "loop"
    /\ UNCHANGED <<callVars, config, direct, frames>>

\* lines 182-184.
HandleTimeout ==
    /\ pc = "except"
    /\ pc' = "done"
    /\ outcome' = "returned"
    /\ ret' = best_move
    /\ via' = "timeout"
    /\ UNCHANGED <<depth, best_move, best_score, score, move, searched>>
    /\ UNCHANGED <<config, direct, frames>>

\* get_move is called once more on the same state with the same configuration,
\* after a call that met no time pressure (fixed-depth mode, no Timeout).
CallAgain ==
    /\ pc = "done"
    /\ via = "fixed"
    /\ first = <<>>
    /\ first' = <<ret>>
    /\ pc' = "call"
    /\ depth' = 0
    /\ best_move' = NoMove
    /\ best_score' = NegInf
    /\ score' = NegInf
    /\ move' = NoMove
    /\ searched' = <<>>
    /\ outcome' = "running"
    /\ ret' = NoMove
    /\ via' = "none"
    /\ UNCHANGED <<config, plain, pruned, frames>>

Next ==
    \/ EntryTimeout
    \/ EntryOk
    \/ NoLegalMoves
    \/ OpeningBook
    \/ Seed
    \/ LoopTimeout
    \/ LoopOk
    \/ SearchReturns
    \/ SearchTimeout
    \/ Accumulate
    \/ HandleTimeout
    \/ CallAgain

Spec == Init /\ [][Next]_vars

\* ------------------------------------------- direct minimax / alphabeta calls
\* No time pressure: the clock never reads below the threshold.
InitSearch ==
    /\ IsGame(game, MaxNodes, {2})
    /\ method = "minimax"
    /\ iterative = FALSE
    /\ search_depth = DefaultSearchDepth
    /\ pc = "idle"
    /\ depth \in 1..Min(MaxDepth, Max(1, TreeHeight(game.kids, 0)))
    /\ best_move = NoMove
    /\ best_score = NegInf
    /\ score = NegInf
    /\ move = NoMove
    /\ searched = <<>>
    /\ outcome = "running"
    /\ ret = NoMove
    /\ via = "none"
    /\ maximizing \in BOOLEAN
    /\ plain = <<>>
    /\ pruned = <<>>
    /\ first = <<>>
    /\ stack = <<>>
    /\ trace = <<>>

\* minimax(game, depth, maximizing_player).
RunMinimax ==
    /\ pc = "idle"
    /\ plain' = <<minimax(game, depth, maximizing)>>
    /\ pc' = "plain"
    /\ UNCHANGED <<pruned, first, callVars, config, frames>>

\* alphabeta(game, depth, maximizing_player=...), on the same state.
RunAlphabeta ==
    /\ pc = "plain"
    /\ pruned' = <<alphabeta(game, depth, NegInf, PosInf, maximizing)>>
    /\ pc' = "both"
    /\ UNCHANGED <<plain, first, callVars, config, frames>>

NextSearch ==
    \/ RunMinimax
    \/ RunAlphabeta

SpecSearch == InitSearch /\ [][NextSearch]_vars

\* ------------------------------------------- the search, one step at a time
\* get_move with the search run frame by frame: every time_left() query of
\* minimax / alphabeta, max_value and min_value is a step of its own that reads
\* at or above TIMER_THRESHOLD, or below it.

\* An event of the search: a clock query that read at or above the threshold
\* ("ok") or below it ("low"), a score_fn call ("eval"), a child expansion
\* ("expand"), a frame returning a value ("return"), a frame left by the
\* Timeout exception ("raise"); by is the node of the frame it happens in, -1
\* for minimax / alphabeta themselves.
Event(kind, by) == [kind |-> kind, by |-> by]

\* The frame of a max_value (maxi) or min_value call on node n, at its entry:
\* v and best_move as lines 202-203 / 234-235 initialise them, i the index of
\* the next move of the for loop.
NewFrame(n, d, maxi, toPrune, alpha, beta) ==
    [node |-> n, depth |-> d, maxi |-> maxi, toPrune |-> toPrune,
     alpha |-> alpha, beta |-> beta,
     v |-> IF maxi THEN NegInf ELSE PosInf, best_move |-> NoMove, i |-> 1, at |-> "entry"]

Top == stack[Len(stack)]
Pop(st) == SubSeq(st, 1, Len(st) - 1)
SetTop(st, f) == [st EXCEPT ![Len(st)] = f]

\* lines 199 / 231: depth == 0 or not game.get_legal_moves().
Terminal(f) == f.depth = 0 \/ Len(game.kids[f.node]) = 0

\* The caller's frame f after its i-th child returned score s: the fold of
\* lines 209 / 215 (241 / 247), the cutoff test and the window update of
\* lines 216-218 (248-250).
Fold(f, s) ==
    LET nxt == IF f.maxi THEN PyMax(<<f.v, f.best_move>>, <<s, LegalMoves(game, f.node)[f.i]>>)
               ELSE PyMin(<<f.v, f.best_move>>, <<s, LegalMoves(game, f.node)[f.i]>>)
        cut == /\ f.toPrune
               /\ IF f.maxi THEN MaxCutoff(nxt[1], f.alpha, f.beta)
                  ELSE MinCutoff(nxt[1], f.alpha, f.beta)
    IN [f EXCEPT !.v = nxt[1],
                 !.best_move = nxt[2],
                 !.alpha = IF f.toPrune /\ f.maxi /\ ~cut THEN Max(f.alpha, nxt[1]) ELSE f.alpha,
                 !.beta = IF f.toPrune /\ ~f.maxi /\ ~cut THEN Min(f.beta, nxt[1]) ELSE f.beta,
                 !.i = f.i + 1,
                 !.at = IF cut THEN "return" ELSE "loop"]

\* The start of a get_move call on a game of at most maxn non-root nodes.
StepsStart(maxn) ==
    /\ IsGame(game, maxn, {1, 2})
    /\ method \in Methods
    /\ iterative \in BOOLEAN
    /\ search_depth = DefaultSearchDepth
    /\ pc = "call"
    /\ depth = 0
    /\ best_move = NoMove
    /\ best_score = NegInf
    /\ score = NegInf
    /\ move = NoMove
    /\ searched = <<>>
    /\ outcome = "running"
    /\ ret = NoMove
    /\ via = "none"
    /\ maximizing = TRUE
    /\ plain = <<>>
    /\ pruned = <<>>
    /\ first = <<>>
    /\ stack = <<>>
    /\ trace = <<>>

InitSteps == StepsStart(MaxStepNodes)

\* line 172 with lines 284-290 / 330-336: search_method is called, its clock
\* query reads at or above the threshold and it calls max_value on the state.
CallSearchOk ==
    /\ pc = "search"
    /\ pc' = "frames"
    /\ stack' = <<NewFrame(0, depth, TRUE, method = "alphabeta", NegInf, PosInf)>>
    /\ trace' = <<Event("ok", -1)>>
    /\ UNCHANGED <<callVars, config, direct>>

\* lines 284-285 / 330-331: the query of minimax / alphabeta reads below the
\* threshold; Timeout reaches the except clause of get_move.
CallSearchTimeout ==
    /\ pc = "search"
    /\ pc' = "except"
    /\ stack' = <<>>
    /\ trace' = <<Event("low", -1)>>
    /\ UNCHANGED <<callVars, config, direct>>

\* lines 197 / 229, the query at the entry of a frame reads at or above the
\* threshold; lines 199 / 231 then tell the terminal state from the others.
FrameEntryOk ==
    /\ pc = "frames"
    /\ Top.at = "entry"
    /\ stack' = SetTop(stack, [Top EXCEPT !.at = IF Terminal(Top) THEN "leaf" ELSE "loop"])
    /\ trace' = Append(trace, Event("ok", Top.node))
    /\ UNCHANGED <<pc, callVars, config, direct>>

\* lines 197-198 / 229-230: the query at the entry of a frame reads below the
\* threshold, Timeout is raised.
FrameEntryTimeout ==
    /\ pc = "frames"
    /\ Top.at = "entry"
    /\ pc' = "unwind"
    /\ trace' = Append(trace, Event("low", Top.node))
    /\ UNCHANGED <<stack, callVars, config, direct>>

\* lines 200 / 232: self.score(game, self) is called at a terminal state.
Evaluate ==
    /\ pc = "frames"
    /\ Top.at = "leaf"
    /\ stack' = SetTop(stack, [Top EXCEPT !.v = ScoreFn(game, Top.node), !.at = "return"])
    /\ trace' = Append(trace, Event("eval", Top.node))
    /\ UNCHANGED <<pc, callVars, config, direct>>

\* A variant of LoopCheckOk that goes on to the next child without querying
\* the clock.
LoopNoCheck ==
    /\ pc = "frames"
    /\ Top.at = "loop"
    /\ Top.i <= Len(game.kids[Top.node])
    /\ stack' = SetTop(stack, [Top EXCEPT !.at = "expand"])
    /\ UNCHANGED <<pc, trace, callVars, config, direct>>

\* lines 207 / 213 (239 / 245): the query before the next child reads at or
\* above the threshold.
LoopCheckOk ==
    /\ pc = "frames"
    /\ Top.at = "loop"
    /\ Top.i <= Len(game.kids[Top.node])
    /\ stack' = SetTop(stack, [Top EXCEPT !.at = "expand"])
    /\ trace' = Append(trace, Event("ok", Top.node))
    /\ UNCHANGED <<pc, callVars, config, direct>>

\* lines 207-208 / 213-214 (239-240 / 245-246): the query before the next
\* child reads below the threshold, Timeout is raised.
LoopCheckTimeout ==
    /\ pc = "frames"
    /\ Top.at = "loop"
    /\ Top.i <= Len(game.kids[Top.node])
    /\ pc' = "unwind"
    /\ trace' = Append(trace, Event("low", Top.node))
    /\ UNCHANGED <<stack, callVars, config, direct>>

\* lines 209 / 215 (241 / 247): game.forecast_move(move) and the recursive call
\* on it, with the window of the caller when pruning.
Expand ==
    /\ pc = "frames"
    /\ Top.at = "expand"
    /\ stack' = Append(SetTop(stack, [Top EXCEPT !.at = "wait"]),
                       NewFrame(Forecast(game, Top.node, Top.i), Top.depth - 1, ~Top.maxi,
                                Top.toPrune,
                                IF Top.toPrune THEN Top.alpha ELSE NegInf,
                                IF Top.toPrune THEN Top.beta ELSE PosInf))
    /\ trace' = Append(trace, Event("expand", Top.node))
    /\ UNCHANGED <<pc, callVars, config, direct>>

\* lines 200, 210, 217, 219 (232, 242, 249, 251): the frame returns
\* (v, best_move); its caller folds the score in, or, for the first frame,
\* search_method returns the pair to get_move (line 172).
ReturnValue ==
    /\ pc = "frames"
    /\ \/ Top.at = "return"
       \/ Top.at = "loop" /\ Top.i > Len(game.kids[Top.node])
    /\ trace' = Append(trace, Event("return", Top.node))
    /\ IF Len(stack) = 1
       THEN /\ score' = Top.v
            /\ move' = Top.best_move
            /\ stack' = <<>>
            /\ pc' = "update"
       ELSE /\ stack' = SetTop(Pop(stack), Fold(stack[Len(stack) - 1], Top.v))
            /\ UNCHANGED <<pc, score, move>>
    /\ UNCHANGED <<depth, best_move, best_score, searched, outcome, ret, via>>
    /\ UNCHANGED <<config, direct>>

\* Timeout propagates: max_value and min_value have no handler, so the
\* exception leaves the innermost frame, which returns nothing; past the first
\* frame it reaches the except clause of get_move (line 182).
Propagate ==
    /\ pc = "unwind"
    /\ stack # <<>>
    /\ stack' = Pop(stack)
    /\ trace' = Append(trace, Event("raise", Top.node))
    /\ pc' = IF Len(stack) = 1 THEN "except" ELSE "unwind"
    /\ UNCHANGED <<callVars, config, direct>>

NextSteps ==
    \/ EntryTimeout
    \/ EntryOk
    \/ NoLegalMoves
    \/ OpeningBook
    \/ Seed
    \/ LoopTimeout
    \/ LoopOk
    \/ CallSearchOk
    \/ CallSearchTimeout
    \/ FrameEntryOk
    \/ FrameEntryTimeout
    \/ Evaluate
    \/ LoopCheckOk
    \/ LoopCheckTimeout
    \/ Expand
    \/ ReturnValue
    \/ Propagate
    \/ Accumulate
    \/ HandleTimeout

SpecSteps == InitSteps /\ [][NextSteps]_vars

\* The same, with progress: the interpreter keeps executing the call, so a
\* step that can be taken is eventually taken.  The clock readings fall below
\* the threshold at the latest when iteration MaxDepth + 1 is about to start
\* (the guard of LoopOk); before that each query may read either way.
InitFair == StepsStart(MaxFairNodes)

FairSpecSteps == InitFair /\ [][NextSteps]_vars /\ WF_vars(NextSteps)

\* The number of events of the kinds ks in the trace.
Count(ks) == Cardinality({j \in 1..Len(trace) : trace[j].kind \in ks})

\* A search that ran step by step to its end returns what max_value computes
\* in one go, after as many score_fn calls and clock queries.
StepsAgreeWithSearch ==
    (pc = "update" /\ trace # <<>>) =>
        LET r == search_method(game, method, depth)
        IN /\ <<score, move>> = <<r.score, r.move>>
           /\ Count({"eval"}) = r.evals
           /\ Count({"ok"}) = r.queries

\* ------------------------------------------------------------------ claims
Range(seq) == {seq[i] : i \in 1..Len(seq)}

\* The i-th legal move of the root is m.
IndexOfMove(g, m) == CHOOSE i \in 1..Len(g.kids[0]) : MoveAt(g, i) = m

Returned == pc = "done" /\ outcome = "returned"

\* C1: get_move never propagates Timeout to its caller: a finished call has
\* returned a move, and when the clock read below the threshold at entry and
\* legal_moves is non-empty the move returned is one of legal_moves.
C1_NeverPropagatesTimeout ==
    pc = "done" =>
        /\ outcome = "returned"
        /\ (via = "entry" /\ Len(legal_moves) > 0) => ret \in Range(legal_moves)

\* C2: a get_move call with a non-empty legal_moves that returns, returns a
\* member of legal_moves, on every exit path; the sentinel (-1, -1) is returned
\* only when legal_moves is empty.
C2_ReturnsLegalMove ==
    Returned =>
        /\ Len(legal_moves) > 0 => ret \in Range(legal_moves)
        /\ ret = NoMove => Len(legal_moves) = 0

\* C3: for every clock reading, get_move called with an empty legal_moves
\* returns the sentinel (-1, -1) without invoking any search.
C3_EmptyReturnsSentinel ==
    (pc = "done" /\ Len(legal_moves) = 0) =>
        /\ outcome = "returned"
        /\ ret = NoMove
        /\ searched = <<>>

\* C4: on the very first move of the game (move count 0) get_move returns the
\* board centre without calling the search.  Stated for the calls that meet no
\* Timeout, on states where the centre is a legal move.
C4_FirstMoveReturnsCenter ==
    (/\ Returned
     /\ via # "timeout"
     /\ game.move_count = 0
     /\ <<game.height \div 2, game.width \div 2>> \in Range(legal_moves)) =>
        /\ ret = <<game.height \div 2, game.width \div 2>>
        /\ searched = <<>>

\* C5: with no time pressure, the score alphabeta returns at the root (window
\* -inf, +inf) equals the score minimax returns at the root, for every game
\* tree, evaluation function and depth.
C5_PrunedScoreEqualsPlain ==
    pc = "both" => pruned[1].score = plain[1].score

\* C5 witness: both searches ran at depth 2 or more and alphabeta cut a subtree
\* off (it made fewer evaluations than minimax).
C5_Witness ==
    /\ pc = "both"
    /\ depth >= 2
    /\ pruned[1].evals < plain[1].evals
    /\ pruned[1].score = plain[1].score
    /\ plain[1].score \in FiniteScores

\* The true value of the root move m at depth d: the depth-(d-1) minimizing
\* minimax value of forecast(state, m).
TrueValue(g, m, d) ==
    min_value(g, Forecast(g, 0, IndexOfMove(g, m)), d - 1, FALSE, NegInf, PosInf).score

\* C6: for a non-terminal state and depth >= 1 the (score, move) returned at
\* the root by the maximizing search, plain and pruned alike, is consistent:
\* the move returned achieves the score returned.
C6_MoveAchievesScore ==
    (pc = "both" /\ maximizing /\ Len(game.kids[0]) > 0) =>
        /\ plain[1].move \in Range(legal_moves)
        /\ TrueValue(game, plain[1].move, depth) = plain[1].score
        /\ pruned[1].move \in Range(legal_moves)
        /\ TrueValue(game, pruned[1].move, depth) = pruned[1].score

\* C7: in iterative mode, when the clock first reads below the threshold while
\* the depth-d iteration (d >= 2) is in flight (the depth-d search has started),
\* get_move returns the move a completed fixed-depth search at depth d-1
\* chooses.  Stated for the calls whose accumulator holds a searched move
\* (best_score above -inf), so that the random seed plays no part.
C7_ReturnsDeepestCompleted ==
    (/\ Returned
     /\ via = "timeout"
     /\ depth >= 2
     /\ Len(searched) = depth
     /\ best_score > NegInf) =>
        ret = search_method(game, method, depth - 1).move

\* C8: two get_move calls on the same state with the same configuration and no
\* time pressure return the same move, whatever the seeding of the accumulator.
C8_SecondCallReturnsSame ==
    (Returned /\ via = "fixed" /\ Len(first) = 1) => ret = first[1]

\* The best score at the root over the moves before the j-th, by plain minimax
\* at depth 2.
RECURSIVE BestBefore(_, _)
BestBefore(g, j) ==
    IF j = 1 THEN NegInf
    ELSE Max(BestBefore(g, j - 1),
             min_value(g, Forecast(g, 0, j - 1), 1, FALSE, NegInf, PosInf).score)

\* A tree on which, in a depth-2 maximizing search, an early sibling forces a
\* cutoff on a later one: the first reply to some later root move scores no more
\* than the best earlier root move, and that later move has further replies.
ForcesCutoff(g) ==
    \E j \in 2..Len(g.kids[0]) :
        LET n == Forecast(g, 0, j)
        IN /\ Len(g.kids[n]) >= 2
           /\ ScoreFn(g, Forecast(g, n, 1)) <= BestBefore(g, j)

\* C9: the pruned search makes at most as many evaluation-function calls as
\* the unpruned search from the same root, and strictly fewer on a tree where
\* an early sibling forces a cutoff on a later sibling.
C9_PrunedEvaluatesNoMore ==
    pc = "both" =>
        /\ pruned[1].evals <= plain[1].evals
        /\ (maximizing /\ depth = 2 /\ ForcesCutoff(game)) =>
               pruned[1].evals < plain[1].evals

\* C9 witness: both searches ran on a tree where an early sibling forces a
\* cutoff, and alphabeta made strictly fewer evaluations.
C9_Witness ==
    /\ pc = "both"
    /\ maximizing
    /\ depth = 2
    /\ ForcesCutoff(game)
    /\ pruned[1].evals < plain[1].evals

\* C10: for a state with exactly one legal move m, get_move returns m, and the
\* one-ply search result is (score_fn(forecast(state, m)), m) with a finite
\* score.
C10_SingleMoveReturned ==
    Len(legal_moves) = 1 =>
        /\ Returned => ret = legal_moves[1]
        /\ (pc = "update" /\ depth = 1) =>
               /\ move = legal_moves[1]
               /\ score = ScoreFn(game, Forecast(game, 0, 1))
               /\ score \in FiniteScores

\* C11: in fixed-depth mode (iterative = False) a get_move call that meets no
\* Timeout performs exactly one search pass, at the configured search_depth,
\* and returns the move a search at search_depth chooses.
C11_FixedModeSearchesAtSearchDepth ==
    (Returned /\ via = "fixed") =>
        /\ searched = <<search_depth>>
        /\ ret = search_method(game, method, search_depth).move

\* C12: a Timeout raised inside the depth-d iteration (at the loop's budget
\* check or inside the search) leaves the accumulator (best_score, best_move)
\* as the last completed iteration, or the seeding, left it, and the move
\* get_move then returns is the accumulator's: nothing computed inside the
\* aborted iteration is written or returned.
C12_TimeoutKeepsAccumulator ==
    [][(pc \in {"loop", "search", "except"} /\ pc' \in {"except", "done"}) =>
           /\ best_score' = best_score
           /\ best_move' = best_move
           /\ <<score', move'>> = <<score, move>>
           /\ pc' = "done" => ret' = best_move]_vars

\* C12 witness: the depth-d search (d >= 2) was aborted after an iteration had
\* completed; had it completed it would have replaced the accumulator with
\* another move, and get_move returned the accumulator of the completed
\* iteration.
C12_Witness ==
    /\ Returned
    /\ via = "timeout"
    /\ depth >= 2
    /\ Len(searched) = depth
    /\ best_score > NegInf
    /\ search_method(game, method, depth).score > best_score
    /\ search_method(game, method, depth).move # best_move
    /\ ret = best_move

ChildValue(g, i, d, maximizing_player) ==
    IF maximizing_player
    THEN min_value(g, Forecast(g, 0, i), d - 1, FALSE, NegInf, PosInf).score
    ELSE max_value(g, Forecast(g, 0, i), d - 1, FALSE, NegInf, PosInf).score

\* The best child value of the root: the maximum for a maximizing root, the
\* minimum for a minimizing one.
BestChildValue(g, d, maximizing_player) ==
    CHOOSE v \in {ChildValue(g, i, d, maximizing_player) : i \in 1..Len(g.kids[0])} :
        \A i \in 1..Len(g.kids[0]) :
            IF maximizing_player THEN ChildValue(g, i, d, maximizing_player) <= v
            ELSE ChildValue(g, i, d, maximizing_player) >= v

\* The moves of the root whose child attains the best child value.
BestMoves(g, d, maximizing_player) ==
    {MoveAt(g, i) : i \in {j \in 1..Len(g.kids[0]) :
        ChildValue(g, j, d, maximizing_player) = BestChildValue(g, d, maximizing_player)}}

\* C14: in the unpruned traversal of a non-terminal state at depth >= 1,
\* max_value returns the maximum child score with the lexicographically
\* greatest move among those attaining it, and min_value returns the minimum
\* child score with the lexicographically smallest move among those attaining
\* it, in either enumeration order of the moves.
C14_TieBreakIsLexicographic ==
    (pc \in {"plain", "both"} /\ Len(game.kids[0]) > 0) =>
        /\ plain[1].score = BestChildValue(game, depth, maximizing)
        /\ plain[1].move \in BestMoves(game, depth, maximizing)
        /\ \A m \in BestMoves(game, depth, maximizing) :
               IF maximizing THEN ~MoveLess(plain[1].move, m)
               ELSE ~MoveLess(m, plain[1].move)

\* C15: a search result whose move is the sentinel (-1, -1) comes from a state
\* with no legal moves: minimax and alphabeta (and so max_value and min_value,
\* whose result they return), called at depth >= 1 on a state that has legal
\* moves, return one of those legal moves, also when every child scores +inf
\* at a minimizing node or -inf at a maximizing node.
C15_SentinelOnlyWithoutMoves ==
    pc = "both" =>
        /\ plain[1].move = NoMove => Len(legal_moves) = 0
        /\ pruned[1].move = NoMove => Len(legal_moves) = 0
        /\ Len(legal_moves) > 0 =>
               /\ plain[1].move \in Range(legal_moves)
               /\ pruned[1].move \in Range(legal_moves)

\* C16: every score_fn call and every child expansion inside max_value and
\* min_value comes right after a clock query of the same frame that read at or
\* above TIMER_THRESHOLD, with no other evaluation or expansion in between;
\* and once a clock query has read below the threshold, Timeout is raised:
\* nothing is evaluated or expanded any more, no frame returns a value, and
\* the search hands no (score, move) to get_move.
C16_CheckpointsBeforeWork ==
    /\ \A j \in 1..Len(trace) :
           /\ trace[j].kind \in {"eval", "expand"} =>
                  (j > 1 /\ trace[j - 1] = Event("ok", trace[j].by))
           /\ trace[j].kind = "low" =>
                  \A k \in (j + 1)..Len(trace) : trace[k].kind = "raise"
    /\ Count({"low"}) > 0 => pc \in {"unwind", "except", "done"}
    /\ pc = "unwind" => Count({"low"}) = 1

\* C16 witness: the clock read below the threshold in a frame below the first
\* one, after at least one evaluation and two expansions; the exception has
\* left every frame and reached get_move.
C16_Witness ==
    /\ pc = "except"
    /\ Count({"eval"}) >= 1
    /\ Count({"expand"}) >= 2
    /\ Count({"raise"}) >= 2
    /\ \E j \in 1..Len(trace) : trace[j].kind = "low" /\ trace[j].by > 0

\* C17: on every finite game tree, with clock readings that eventually fall
\* below TIMER_THRESHOLD, every get_move call terminates (it returns, or it
\* raises at its entry check), in iterative mode too; a fixed-depth call also
\* terminates on the runs where no clock query ever reads below the threshold.
C17_GetMoveTerminates == <>(pc = "done")

\* C17 witness: an iterative call that completed every iteration the clock
\* let it run, was stopped by the clock before the next one, and returned.
C17_Witness ==
    /\ pc = "done"
    /\ iterative
    /\ via = "timeout"
    /\ depth > MaxDepth
    /\ searched = [d \in 1..MaxDepth |-> d]

\* A search is started by this step, within the call.
StartsSearch == searched' # searched /\ searched' # <<>>

\* C18: within one get_move call the searches are started at depths 1, 2, 3,
\* ... in consecutive order, each right after a budget check (the step of the
\* depth loop that starts it); the depth advances only when the iteration at
\* the current depth has run to completion and its result has been offered to
\* the accumulator; and once the call has been aborted by Timeout or has
\* returned (the opening move included, which is returned without a search),
\* it starts no further search.
C18_IterationsInOrder ==
    /\ [](/\ searched = [d \in 1..Len(searched) |-> d]
          /\ via = "opening" => searched = <<>>
          /\ pc = "update" =>
                 /\ Len(searched) = depth
                 /\ <<score, move>> = <<search_method(game, method, depth).score,
                                        search_method(game, method, depth).move>>)
    /\ [][/\ StartsSearch =>
                (/\ pc = "loop"
                 /\ depth = Len(searched) + 1
                 /\ searched' = Append(searched, depth))
          /\ (depth' # depth /\ pc \in {"loop", "search", "update", "except"}) =>
                (/\ pc = "update"
                 /\ depth' = depth + 1
                 /\ best_score' >= score)
          /\ (pc \in {"except", "done"}) => ~StartsSearch]_vars

\* C18 witness: the depth-3 search has just been started, after the depth-1
\* and depth-2 iterations completed and the accumulator took the depth-2
\* result.
C18_Witness ==
    /\ pc = "search"
    /\ searched = <<1, 2, 3>>
    /\ <<best_score, best_move>> = <<score, move>>
    /\ <<score, move>> = <<search_method(game, method, 2).score,
                           search_method(game, method, 2).move>>
    /\ score > search_method(game, method, 1).score

=============================================================================
